---- MODULE Spec2Model ----
(***************************************************************************)
(* The frps process supervisor (FrpsManager): the registry of managed      *)
(* process records, stop (SIGTERM, bounded poll, optional SIGKILL),        *)
(* create (conflict / replace, binary check, working directory, config     *)
(* file, spawn, exit watcher), and the host processes themselves.          *)
(*                                                                         *)
(* Every await of the TypeScript source is a point where other handlers    *)
(* and callbacks may run; each action below is one synchronous run of the  *)
(* event loop: from a call or a resumed await up to the next await.        *)
(***************************************************************************)
EXTENDS Integers, Sequences, FiniteSets, TLC

\* ---- bounds of the model ----
MaxProcs == 2        \* host processes spawned over a run
MaxPushes == 25      \* lines pushed into one RingBuffer
MaxStream == 4       \* bytes of one output stream

\* ---- program constants ----
PollMs == 50                 \* Bun.sleep(50) in the poll loop of stop
ReplaceTimeoutMs == 1000     \* stop(id, {force: true, timeoutMs: 1000})
DefaultTimeoutMs == 3000     \* const { force = false, timeoutMs = 3000 } = options ?? {}
Absent == 0                  \* Map.get of an id that is not in the map

Ids == {"a", "b"}             \* ids callers name; "b" is never created
CreateIds == {"a"}
Callers == {"c1", "c2"}       \* callers whose requests overlap in time
TimeoutChoices == {0, 100}
ExitCodes == {"0", "null"}   \* child.exitCode: a number, or null when killed
ConfigTomls == {"absent", "toml"}
Configs == {"absent", "object"}

VARIABLES
    processes,   \* FrpsManager.processes: id -> reference of its record, or Absent
    metas,       \* the ManagedProcessMeta objects ever made, by reference
    children,    \* the host processes ever spawned; child p belongs to metas[p]
    dirs,        \* ids whose working directory runtime/frps-<id> exists
    files,       \* ids whose runtime/frps-<id>/frps.toml has been written
    calls,       \* per caller: the stop or create call it has in flight; and
                 \* per id: the stop of that id made by the shutdown handler
    server,      \* the server process: up, stopping on a host signal, or exited
    held,        \* what a caller in the server holds from get, list or create
    ring,        \* a RingBuffer, the lines pushed so far and the last toArray
    splitter,    \* one run of streamLines: the stream, what is left of it, the
                 \* decoder, buf, and the lines handed to onLine
    capture,     \* per process and record: the lines each channel has handed
                 \* to its sink, and the entries pushed into the logBuffer
    http         \* the request the fetch handler has taken last, and how far
                 \* it got: answered by /healthz, refused, or passed on

\* State outside the supervisor object, which its methods and the callbacks
\* of the host processes leave alone.
elsewhere == <<server, held, ring, splitter, capture, http>>

vars == <<processes, metas, children, dirs, files, calls, elsewhere>>

\* Readings of Date.now() are kept by the event that took them: the spawn of
\* child p, or the run of the exit watcher of child p.
SpawnTime(p) == <<"spawn", p>>
ExitTime(p) == <<"exit", p>>

\* ---------------------------------------------------------------- records

RunningState(pid, startedAt) ==
    [status |-> "running", pid |-> pid, startedAt |-> startedAt]

ExitedState(startedAt, exitedAt, exitCode) ==
    [status |-> "exited", startedAt |-> startedAt, exitedAt |-> exitedAt,
     exitCode |-> exitCode, signal |-> "null"]

\* No RingBuffer has been made yet.
NoRing == [rb |-> [capacity |-> 0, buffer |-> <<>>, index |-> 0, filled |-> FALSE],
           pushed |-> 0, given |-> FALSE, limit |-> 0, out |-> <<>>]

\* The fetch handler has no request at hand.
NoRequest == [healthz |-> FALSE, auth |-> [has |-> FALSE, text |-> <<>>],
              verdict |-> "none"]

\* streamLines has not been called yet.
NoSplitter == [stream |-> <<>>, rest |-> <<>>, pending |-> FALSE, buf |-> <<>>,
               lines |-> <<>>, chunks |-> 0, phase |-> "none"]

\* A caller holds nothing yet.
NothingHeld == [via |-> "none", vals |-> <<>>]

IdleCall ==
    [op |-> "idle", pc |-> "idle", id |-> "", force |-> FALSE, timeoutMs |-> 0,
     waited |-> 0, result |-> "none", sent |-> <<>>, meta |-> Absent]

\* A settled call: the promise of stop or create has its outcome.
Settled(c, v) == [c EXCEPT !.pc = "done", !.result = v]

\* The continuation of a settled promise (the request handler that awaits
\* manager.stop or manager.create) is a microtask: it runs before the event
\* loop takes the next timer, I/O callback or request.
NoneSettled == \A t \in DOMAIN calls : calls[t].pc # "done"

\* ---------------------------------------------------------------- signals

\* process.kill(pid, sig) reaches a live process; otherwise it throws ESRCH.
\* (A process that has ended keeps its pid here: pids are not reused.)
Deliver(ch, pid, sig) ==
    IF ch[pid].status = "alive"
    THEN [ch EXCEPT ![pid].sigs = @ \cup {sig}]
    ELSE ch

KillThrows(ch, pid) == ch[pid].status # "alive"

\* One entry of a call's signal log: process.kill(pid, sig).
Sent(pid, sig) == [sig |-> sig, pid |-> pid]

\* A kill without the try/catch: its error leaves stop.
TryKillRethrows(c, ch, pid, sig) ==
    [c  |-> IF KillThrows(ch, pid)
            THEN Settled([c EXCEPT !.sent = Append(@, Sent(pid, sig))], "threw")
            ELSE [c EXCEPT !.sent = Append(@, Sent(pid, sig))],
     ch |-> Deliver(ch, pid, sig)]

\* try { process.kill(pid, sig) } catch {}  -- the error is swallowed, so the
\* call never takes the result "threw" (an error that left stop would).
TryKill(c, ch, pid, sig) ==
    [c  |-> [c EXCEPT !.sent = Append(@, Sent(pid, sig))],
     ch |-> Deliver(ch, pid, sig)]

\* ---------------------------------------------------------------- stop

\* `return v` of stop: to the caller, or back into the create that awaits it,
\* which goes on to await assertBinaryExists.
StopReturn(c, v) ==
    IF c.op = "stop"
    THEN Settled(c, v)
    ELSE [c EXCEPT !.pc = "assertBinary", !.waited = 0, !.force = FALSE,
                   !.timeoutMs = 0, !.meta = Absent]

\* if (current && current.state.status === "running" && force)
ShouldKill(current, ms, force) ==
    current # Absent /\ ms[current].state.status = "running" /\ force

\* A stop that answers false when it finds the record already Exited, as if
\* only the call that ended the process had stopped it.
StopFinishLosesRace(c, ch) ==
    LET current == processes[c.id]
        r == IF ShouldKill(current, metas, c.force)
             THEN TryKill(c, ch, metas[current].state.pid, "SIGKILL")
             ELSE [c |-> c, ch |-> ch]
        v == IF current # Absent /\ metas[current].state.status = "exited"
             THEN "false" ELSE "true"
    IN  [c |-> StopReturn(r.c, v), ch |-> r.ch]

\* After the loop: SIGKILL the record now under the id, if running and force.
StopFinish(c, ch) ==
    LET current == processes[c.id]
        r == IF ShouldKill(current, metas, c.force)
             THEN TryKill(c, ch, metas[current].state.pid, "SIGKILL")
             ELSE [c |-> c, ch |-> ch]
    IN  IF r.c.result = "threw" THEN r
        ELSE [c |-> StopReturn(r.c, "true"), ch |-> r.ch]

\* while (Date.now() - startWait < timeoutMs)
LoopCond(waited, timeoutMs) == waited < timeoutMs

\* Date.now() - startWait after one more Bun.sleep(50)
Slept(waited) == waited + PollMs

\* The head of the poll loop, down to the next await or to the return.
StopPoll(c, ch) ==
    IF LoopCond(c.waited, c.timeoutMs)
    THEN LET current == processes[c.id] IN
         IF current = Absent \/ metas[current].state.status = "exited"
         THEN StopFinish(c, ch)
         ELSE [c |-> [c EXCEPT !.pc = "sleep"], ch |-> ch]
    ELSE StopFinish(c, ch)

\* Variants of the early returns: true for an unknown id; false for an Exited
\* record.
EarlyReturnUnknownTrue(meta, ms) ==
    IF meta = Absent THEN "true"
    ELSE IF ms[meta].state.status # "running" THEN "true" ELSE "none"

EarlyReturnExitedFalse(meta, ms) ==
    IF meta = Absent THEN "false"
    ELSE IF ms[meta].state.status # "running" THEN "false" ELSE "none"

\* if (!meta) return false; if (meta.state.status !== "running") return true;
EarlyReturn(meta, ms) ==
    IF meta = Absent THEN "false"
    ELSE IF ms[meta].state.status # "running" THEN "true" ELSE "none"

\* stop from its first line to its first await (or its return).
StopEnter(c, ch) ==
    LET meta == processes[c.id] IN
    IF EarlyReturn(meta, metas) # "none"
    THEN [c |-> StopReturn(c, EarlyReturn(meta, metas)), ch |-> ch]
    ELSE LET r == TryKill(c, ch, metas[meta].state.pid, "SIGTERM") IN
         IF r.c.result = "threw" THEN r
         ELSE StopPoll([r.c EXCEPT !.waited = 0, !.meta = meta], r.ch)

\* manager.stop(id, {force, timeoutMs}) is called.
StopCall(t, id, force, timeoutMs) ==
    /\ NoneSettled
    /\ calls[t].op = "idle"
    /\ LET c0 == [IdleCall EXCEPT !.op = "stop", !.id = id, !.force = force,
                                  !.timeoutMs = timeoutMs]
           r == StopEnter(c0, children)
       IN  /\ calls' = [calls EXCEPT ![t] = r.c]
           /\ children' = r.ch
    /\ UNCHANGED <<processes, metas, dirs, files>>
    /\ UNCHANGED elsewhere

\* Bun.sleep(50) of a stop (called directly or from create) has elapsed.
StopWake(t) ==
    /\ NoneSettled
    /\ calls[t].pc = "sleep"
    /\ LET r == StopPoll([calls[t] EXCEPT !.waited = Slept(@)], children)
       IN  /\ calls' = [calls EXCEPT ![t] = r.c]
           /\ children' = r.ch
    /\ UNCHANGED <<processes, metas, dirs, files>>
    /\ UNCHANGED elsewhere

\* ---------------------------------------------------------------- create

\* A validation without the last check.
ValidateCreateBodyLax(configToml, config) == "ok"

\* validateCreateBody, its last check: one of configToml, config is required.
ValidateCreateBody(configToml, config) ==
    IF configToml = "absent" /\ config = "absent" THEN "invalid400" ELSE "ok"

\* An id check that replaces whatever replaceIfExists says.
ExistsCheckAlwaysReplace(reg, id, replaceIfExists) ==
    IF reg[id] # Absent THEN "replace" ELSE "new"

\* The id check of create: "conflict", "replace" or "new".
ExistsCheck(reg, id, replaceIfExists) ==
    IF reg[id] # Absent
    THEN IF replaceIfExists THEN "replace" ELSE "conflict"
    ELSE "new"

InFlightCreates == Cardinality({t \in Callers :
                      calls[t].op = "create" /\ calls[t].pc # "done"})

\* POST /frps: validateCreateBody(body), then manager.create up to its first await.
CreateCall(t, id, configToml, config, replaceIfExists) ==
    /\ NoneSettled
    /\ calls[t].op = "idle"
    /\ Len(children) + InFlightCreates < MaxProcs
    /\ LET c0 == [IdleCall EXCEPT !.op = "create", !.id = id]
           how == ExistsCheck(processes, id, replaceIfExists)
           r == IF ValidateCreateBody(configToml, config) # "ok"
                THEN [c |-> Settled(c0, "invalid400"), ch |-> children]
                ELSE IF how = "conflict"
                THEN [c |-> Settled(c0, "conflict409"), ch |-> children]
                ELSE IF how = "replace"
                THEN StopEnter([c0 EXCEPT !.force = TRUE,
                                          !.timeoutMs = ReplaceTimeoutMs], children)
                ELSE [c |-> [c0 EXCEPT !.pc = "assertBinary"], ch |-> children]
       IN  /\ calls' = [calls EXCEPT ![t] = r.c]
           /\ children' = r.ch
    /\ UNCHANGED <<processes, metas, dirs, files>>
    /\ UNCHANGED elsewhere

\* await assertBinaryExists(binaryPath) settles; on success mkdir is issued.
CreateBinaryChecked(t, found) ==
    /\ NoneSettled
    /\ calls[t].op = "create" /\ calls[t].pc = "assertBinary"
    /\ calls' = [calls EXCEPT ![t] =
                    IF found THEN [@ EXCEPT !.pc = "mkdir"]
                    ELSE Settled(@, "binary400")]
    /\ UNCHANGED <<processes, metas, children, dirs, files>>
    /\ UNCHANGED elsewhere

\* await mkdir(workDir, {recursive: true}) settles; writeFile is issued.
CreateMkdirDone(t) ==
    /\ NoneSettled
    /\ calls[t].op = "create" /\ calls[t].pc = "mkdir"
    /\ dirs' = dirs \cup {calls[t].id}
    /\ calls' = [calls EXCEPT ![t].pc = "writeFile"]
    /\ UNCHANGED <<processes, metas, children, files>>
    /\ UNCHANGED elsewhere

\* An insert that also resets the record already under the id to Running.
InstallInPlace(ms, reg, id, pid) ==
    LET old == IF reg[id] = Absent THEN ms
               ELSE [ms EXCEPT ![reg[id]].state = RunningState(pid, SpawnTime(pid))]
    IN  [metas |-> Append(old, [id |-> id,
                                state |-> RunningState(pid, SpawnTime(pid))]),
         processes |-> [reg EXCEPT ![id] = Len(ms) + 1]]

\* const meta = {...}; this.processes.set(id, meta)
Install(ms, reg, id, pid) ==
    [metas |-> Append(ms, [id |-> id, state |-> RunningState(pid, SpawnTime(pid))]),
     processes |-> [reg EXCEPT ![id] = Len(ms) + 1]]

\* A spawn failure that removes the working directory and the config file.
SpawnErrorRollsBack(ds, fs, id) == [dirs |-> ds \ {id}, files |-> fs \ {id}]

\* Bun.spawn throws: the error leaves create as it is, no catch, no cleanup.
SpawnError(ds, fs, id) == [dirs |-> ds, files |-> fs]

\* await writeFile settles; Bun.spawn, the record, the registry insert, the
\* log streams and the exit watcher follow without another await.
CreateSpawn(t, spawned) ==
    /\ NoneSettled
    /\ calls[t].op = "create" /\ calls[t].pc = "writeFile"
    /\ UNCHANGED elsewhere
    /\ IF spawned
       THEN LET pid == Len(children) + 1
                r == Install(metas, processes, calls[t].id, pid) IN
            /\ metas' = r.metas
            /\ processes' = r.processes
            /\ children' = Append(children,
                  [status |-> "alive", id |-> calls[t].id, sigs |-> {},
                   exitCode |-> "null"])
            /\ calls' = [calls EXCEPT ![t] = Settled(@, "created")]
            /\ files' = files \cup {calls[t].id}
            /\ UNCHANGED dirs
       ELSE LET r == SpawnError(dirs, files \cup {calls[t].id}, calls[t].id) IN
            /\ calls' = [calls EXCEPT ![t] = Settled(@, "spawnError")]
            /\ dirs' = r.dirs
            /\ files' = r.files
            /\ UNCHANGED <<metas, processes, children>>

\* ---------------------------------------------------------------- host processes

\* The host process terminates: by itself, on a signal, or not at all unless
\* SIGKILL reached it. exitCode is null only for a process ended by a signal.
ChildExit(p, code) ==
    /\ NoneSettled
    /\ children[p].status = "alive"
    /\ code = "null" => children[p].sigs # {}
    /\ children' = [children EXCEPT ![p].status = "exited", ![p].exitCode = code,
                                    ![p].sigs = {}]
    /\ UNCHANGED <<processes, metas, dirs, files, calls>>
    /\ UNCHANGED elsewhere

\* The body of the exit watcher: prev = this.processes.get(id); prev.state = {...}
Stamp(ms, reg, id, startedAt, exitedAt, exitCode) ==
    LET prev == reg[id] IN
    IF prev = Absent THEN ms
    ELSE [ms EXCEPT ![prev].state = ExitedState(startedAt, exitedAt, exitCode)]

\* child.exited.then(...) runs for child p.
ExitWatcher(p) ==
    /\ NoneSettled
    /\ children[p].status = "exited"
    /\ children' = [children EXCEPT ![p].status = "notified"]
    /\ metas' = Stamp(metas, processes, children[p].id, SpawnTime(p), ExitTime(p),
                      children[p].exitCode)
    /\ UNCHANGED <<processes, dirs, files, calls>>
    /\ UNCHANGED elsewhere

\* ---------------------------------------------------------------- callers

\* The handler that awaited the call runs on: the caller has its answer and
\* its slot is free for the next request.
Return(t) ==
    /\ calls[t].pc = "done"
    /\ calls' = [calls EXCEPT ![t] = IdleCall]
    /\ UNCHANGED <<processes, metas, children, dirs, files>>
    /\ UNCHANGED elsewhere

Init ==
    /\ processes = [id \in Ids |-> Absent]
    /\ metas = <<>>
    /\ children = <<>>
    /\ dirs = {}
    /\ files = {}
    /\ calls = [t \in Callers \cup Ids |-> IdleCall]
    /\ server = [phase |-> "up", ids |-> {}]
    /\ held = NothingHeld
    /\ ring = NoRing
    /\ splitter = NoSplitter
    /\ http = NoRequest
    /\ capture = [p \in 1..MaxProcs |-> [stdout |-> 0, stderr |-> 0, buf |-> <<>>]]

Next ==
    \/ \E t \in Callers, id \in Ids, force \in BOOLEAN, timeoutMs \in TimeoutChoices :
          StopCall(t, id, force, timeoutMs)
    \/ \E t \in Callers : StopWake(t)
    \/ \E t \in Callers, id \in CreateIds, configToml \in ConfigTomls, config \in Configs,
          replaceIfExists \in BOOLEAN :
          CreateCall(t, id, configToml, config, replaceIfExists)
    \/ \E t \in Callers, found \in BOOLEAN : CreateBinaryChecked(t, found)
    \/ \E t \in Callers : CreateMkdirDone(t)
    \/ \E t \in Callers, spawned \in BOOLEAN : CreateSpawn(t, spawned)
    \/ \E p \in 1..Len(children), code \in ExitCodes : ChildExit(p, code)
    \/ \E p \in 1..Len(children) : ExitWatcher(p)
    \/ \E t \in Callers : Return(t)

Spec == Init /\ [][Next]_vars

\* The event loop runs every timer that has expired and every pending
\* continuation. A pending continuation holds a timer back only until it has
\* run, hence strong fairness for the timer.
TimerSpec ==
    /\ Spec
    /\ \A t \in Callers : SF_vars(StopWake(t)) /\ WF_vars(Return(t))

\* A process that SIGKILL reached terminates.
KilledExit(p) ==
    /\ p \in 1..Len(children)
    /\ "SIGKILL" \in children[p].sigs
    /\ \E code \in ExitCodes : ChildExit(p, code)

Watcher(p) == p \in 1..Len(children) /\ ExitWatcher(p)

\* In addition SIGKILL ends a process, and the exit watcher of an ended
\* process runs.
FairSpec ==
    /\ TimerSpec
    /\ \A p \in 1..MaxProcs : SF_vars(KilledExit(p)) /\ SF_vars(Watcher(p))

\* ---------------------------------------------------------------- shutdown

\* manager.list().map((p) => p.id): the ids in the registry.
TrackedIds(reg) == {id \in Ids : reg[id] # Absent}

\* ids.map((id) => manager.stop(id, {force: true})): every stop runs from its
\* first line to its first await, one after the other, in the same run of the
\* event loop. The stop of id is the call filed under id.
RECURSIVE StopAll(_, _, _)
StopAll(ids, cs, ch) ==
    IF ids = {} THEN [cs |-> cs, ch |-> ch]
    ELSE LET id == CHOOSE i \in ids : TRUE
             c0 == [IdleCall EXCEPT !.op = "stop", !.id = id, !.force = TRUE,
                                    !.timeoutMs = DefaultTimeoutMs]
             r == StopEnter(c0, ch)
         IN  StopAll(ids \ {id}, [cs EXCEPT ![id] = r.c], r.ch)

\* await Promise.all(...) is over when every stop of the handler has returned.
AllStopped(cs, ids) == \A id \in ids : cs[id].pc = "joined"

\* SIGINT or SIGTERM reaches the server: the handler takes the ids and starts
\* the stops; with no id in the registry it goes on to process.exit(0).
ShutdownSignal ==
    /\ NoneSettled
    /\ server.phase = "up"
    /\ LET ids == TrackedIds(processes)
           r == StopAll(ids, calls, children)
       IN  /\ calls' = r.cs
           /\ children' = r.ch
           /\ server' = [phase |-> IF ids = {} THEN "exited" ELSE "stopping",
                         ids |-> ids]
    /\ UNCHANGED <<processes, metas, dirs, files, held, ring, splitter, capture, http>>

\* Bun.sleep(50) of a stop of the handler has elapsed. The stops of the handler
\* armed their timers in the same run: the one that has slept less fires first.
ShutdownWake(id) ==
    /\ server.phase = "stopping"
    /\ \A other \in server.ids :
          calls[other].pc = "sleep" => calls[other].waited >= calls[id].waited
    /\ StopWake(id)

\* A stop of the handler has returned; after the last one process.exit(0).
ShutdownJoin(id) ==
    /\ server.phase = "stopping"
    /\ calls[id].pc = "done"
    /\ calls' = [calls EXCEPT ![id].pc = "joined"]
    /\ server' = [server EXCEPT !.phase = IF AllStopped(calls', server.ids)
                                          THEN "exited" ELSE @]
    /\ UNCHANGED <<processes, metas, children, dirs, files, held, ring, splitter, capture, http>>

\* After process.exit(0) no handler, timer or callback of the server runs.
Up == server.phase # "exited"

\* The server with the shutdown handler, and clients that create.
ShutdownNext ==
    \/ Up /\ \E t \in Callers, id \in Ids, configToml \in ConfigTomls,
                config \in Configs, replaceIfExists \in BOOLEAN :
                CreateCall(t, id, configToml, config, replaceIfExists)
    \/ Up /\ \E t \in Callers : StopWake(t)
    \/ Up /\ \E t \in Callers, found \in BOOLEAN : CreateBinaryChecked(t, found)
    \/ Up /\ \E t \in Callers : CreateMkdirDone(t)
    \/ Up /\ \E t \in Callers, spawned \in BOOLEAN : CreateSpawn(t, spawned)
    \/ Up /\ \E p \in 1..Len(children), code \in ExitCodes : ChildExit(p, code)
    \/ Up /\ \E p \in 1..Len(children) : ExitWatcher(p)
    \/ Up /\ \E t \in Callers : Return(t)
    \/ ShutdownSignal
    \/ \E id \in Ids : ShutdownWake(id)
    \/ \E id \in Ids : ShutdownJoin(id)

ShutdownSpec == Init /\ [][ShutdownNext]_vars

\* ---------------------------------------------------------------- readers

\* A value in a caller's hands is the record object itself, or a new object
\* with the record's fields as they were when it was made.
Reference(ms, r) == [kind |-> "ref", ref |-> r, val |-> ms[r]]

\* A list that hands out the record objects themselves, without {...p}.
ListWithoutCopy(ms, r) == [kind |-> "ref", ref |-> r, val |-> ms[r]]

\* {...p}: a new object with the fields of p. (A state object is never written
\* to by the supervisor: the exit watcher gives the record a new one.)
Copy(ms, r) == [kind |-> "copy", ref |-> r, val |-> ms[r]]

\* What the caller reads from a value it holds.
Read(e, ms) == IF e.kind = "ref" THEN ms[e.ref] ELSE e.val

\* Values a caller assigns to a field of what it holds.
Fields == {"id", "state"}
CallerValue(field) == IF field = "id" THEN "mine" ELSE [status |-> "mine"]

\* get(id): return this.processes.get(id)
Get(id) ==
    /\ NoneSettled
    /\ held' = IF processes[id] = Absent
               THEN [via |-> "get", vals |-> <<>>]
               ELSE [via |-> "get", vals |-> id :> Reference(metas, processes[id])]
    /\ UNCHANGED <<processes, metas, children, dirs, files, calls, server, ring, splitter, capture, http>>

\* list(): return [...this.processes.values()].map((p) => ({...p}))
List ==
    /\ NoneSettled
    /\ held' = [via |-> "list",
                vals |-> [id \in TrackedIds(processes) |-> Copy(metas, processes[id])]]
    /\ UNCHANGED <<processes, metas, children, dirs, files, calls, server, ring, splitter, capture, http>>

\* const meta = await manager.create(body): create's `return meta` hands out
\* the object it has just put into the registry.
KeepCreated(t) ==
    /\ calls[t].pc = "done" /\ calls[t].op = "create" /\ calls[t].result = "created"
    /\ held' = [via |-> "create", vals |-> calls[t].id :> Reference(metas, Len(metas))]
    /\ calls' = [calls EXCEPT ![t] = IdleCall]
    /\ UNCHANGED <<processes, metas, children, dirs, files, server, ring, splitter, capture, http>>

\* The caller assigns to a field of a value it holds: value[field] = v.
Assign(id, field) ==
    /\ NoneSettled
    /\ id \in DOMAIN held.vals
    /\ LET e == held.vals[id] IN
       IF e.kind = "ref"
       THEN /\ metas' = [metas EXCEPT ![e.ref][field] = CallerValue(field)]
            /\ UNCHANGED held
       ELSE /\ held' = [held EXCEPT !.vals[id].val[field] = CallerValue(field)]
            /\ UNCHANGED metas
    /\ UNCHANGED <<processes, children, dirs, files, calls, server, ring, splitter, capture, http>>

\* The supervisor with callers that create, read and keep what they read.
ReadNext ==
    \/ \E t \in Callers, id \in CreateIds, configToml \in ConfigTomls,
          config \in Configs, replaceIfExists \in BOOLEAN :
          CreateCall(t, id, configToml, config, replaceIfExists)
    \/ \E t \in Callers : StopWake(t)
    \/ \E t \in Callers, found \in BOOLEAN : CreateBinaryChecked(t, found)
    \/ \E t \in Callers : CreateMkdirDone(t)
    \/ \E t \in Callers, spawned \in BOOLEAN : CreateSpawn(t, spawned)
    \/ \E p \in 1..Len(children), code \in ExitCodes : ChildExit(p, code)
    \/ \E p \in 1..Len(children) : ExitWatcher(p)
    \/ \E t \in Callers : Return(t)
    \/ \E t \in Callers : KeepCreated(t)
    \/ \E id \in Ids : Get(id)
    \/ List
    \/ \E id \in Ids, field \in Fields : Assign(id, field)

ReadSpec == Init /\ [][ReadNext]_vars

\* ---------------------------------------------------------------- no replace

\* The supervisor with callers none of which asks for a replace: every create
\* has replaceIfExists = false.
NoReplaceNext ==
    \/ \E t \in Callers, id \in Ids, force \in BOOLEAN, timeoutMs \in TimeoutChoices :
          StopCall(t, id, force, timeoutMs)
    \/ \E t \in Callers : StopWake(t)
    \/ \E t \in Callers, id \in CreateIds, configToml \in ConfigTomls, config \in Configs :
          CreateCall(t, id, configToml, config, FALSE)
    \/ \E t \in Callers, found \in BOOLEAN : CreateBinaryChecked(t, found)
    \/ \E t \in Callers : CreateMkdirDone(t)
    \/ \E t \in Callers, spawned \in BOOLEAN : CreateSpawn(t, spawned)
    \/ \E p \in 1..Len(children), code \in ExitCodes : ChildExit(p, code)
    \/ \E p \in 1..Len(children) : ExitWatcher(p)
    \/ \E t \in Callers : Return(t)

NoReplaceSpec == Init /\ [][NoReplaceNext]_vars

\* ---------------------------------------------------------------- RingBuffer

RequestedCapacities == {5, 10, 11, 12}
Limits == 0..13
Undefined == 0       \* an empty slot of new Array(capacity); lines are 1, 2, ...

Min(a, b) == IF a < b THEN a ELSE b
Max(a, b) == IF a > b THEN a ELSE b

\* Array.prototype.slice(from, to) for 0 <= from, to <= length; the array is
\* a sequence, slot i of the array being element i + 1.
Slice(arr, from, to) == SubSeq(arr, from + 1, to)

\* A constructor that bounds the capacity from below only.
RingBufferNoUpperClamp(capacity) ==
    LET c == Max(10, capacity) IN
    [capacity |-> c, buffer |-> [i \in 1..c |-> Undefined], index |-> 0,
     filled |-> FALSE]

\* constructor(capacity)
RingBuffer(capacity) ==
    LET c == Max(10, Min(capacity, 10000)) IN
    [capacity |-> c, buffer |-> [i \in 1..c |-> Undefined], index |-> 0,
     filled |-> FALSE]

\* A push that forgets that the buffer has wrapped.
pushNeverFilled(rb, line) ==
    [rb EXCEPT !.buffer[rb.index + 1] = line,
               !.index = (rb.index + 1) % rb.capacity]

\* push(line)
push(rb, line) ==
    LET index == (rb.index + 1) % rb.capacity IN
    [rb EXCEPT !.buffer[rb.index + 1] = line,
               !.index = index,
               !.filled = IF index = 0 THEN TRUE ELSE @]

\* A toArray that cuts the limit from the front of the data.
toArrayFromFront(rb, given, limit) ==
    LET data == IF rb.filled
                THEN Slice(rb.buffer, rb.index, rb.capacity)
                        \o Slice(rb.buffer, 0, rb.index)
                ELSE Slice(rb.buffer, 0, rb.index)
    IN  IF given /\ limit > 0
        THEN Slice(data, 0, Min(limit, Len(data)))
        ELSE data

\* toArray(limit?): `given` is typeof limit === "number".
toArray(rb, given, limit) ==
    LET data == IF rb.filled
                THEN Slice(rb.buffer, rb.index, rb.capacity)
                        \o Slice(rb.buffer, 0, rb.index)
                ELSE Slice(rb.buffer, 0, rb.index)
    IN  IF given /\ limit > 0
        THEN Slice(data, Max(0, Len(data) - limit), Len(data))
        ELSE data

\* new RingBuffer(capacity)
NewRingBuffer(capacity) ==
    /\ ring = NoRing
    /\ ring' = [NoRing EXCEPT !.rb = RingBuffer(capacity)]
    /\ UNCHANGED <<processes, metas, children, dirs, files, calls, server, held, splitter, capture, http>>

\* logBuffer.push(line): the lines are numbered as they are pushed.
Push ==
    /\ ring # NoRing
    /\ ring.pushed < MaxPushes
    /\ ring' = [ring EXCEPT !.rb = push(@, ring.pushed + 1), !.pushed = @ + 1]
    /\ UNCHANGED <<processes, metas, children, dirs, files, calls, server, held, splitter, capture, http>>

\* logBuffer.toArray(limit) or logBuffer.toArray(); the caller keeps the array.
ToArray(given, limit) ==
    /\ ring # NoRing
    /\ ring' = [ring EXCEPT !.given = given, !.limit = IF given THEN limit ELSE 0,
                            !.out = toArray(ring.rb, given, limit)]
    /\ UNCHANGED <<processes, metas, children, dirs, files, calls, server, held, splitter, capture, http>>

RingNext ==
    \/ \E capacity \in RequestedCapacities : NewRingBuffer(capacity)
    \/ Push
    \/ \E given \in BOOLEAN, limit \in Limits : ToArray(given, limit)

RingSpec == Init /\ [][RingNext]_vars

\* input.logLines of create: absent, or an integer.
LogLines == {0 - 1, 0, 9, 10, 11, 12, 9999, 10000, 10001}
DefaultLogLines == 1000

\* input.logLines ?? 1000
LogLinesOrDefault(given, logLines) == IF given THEN logLines ELSE DefaultLogLines

\* const logBuffer = new RingBuffer(input.logLines ?? 1000)
CreateLogBuffer(given, logLines) ==
    NewRingBuffer(LogLinesOrDefault(given, logLines))

\* The log buffer of a record from its creation on, with the lines pushed.
LogBufferNext ==
    \/ \E given \in BOOLEAN, logLines \in LogLines : CreateLogBuffer(given, logLines)
    \/ Push

LogBufferSpec == Init /\ [][LogBufferNext]_vars

\* ---------------------------------------------------------------- streamLines

\* Bytes of a stream: a letter, carriage return, line feed, and the two bytes
\* C3 A9 of the one character U+00E9 (C3 leads, A9 continues).
Bytes == {"a", "CR", "LF", "C3", "A9"}
Streams == UNION {[1..n -> Bytes] : n \in 0..MaxStream}

\* One byte through the UTF-8 decoder: the characters it gives and whether a
\* lead byte is now waiting for its continuation. A byte that cannot go on or
\* start a character gives U+FFFD.
DecodeByte(pending, b) ==
    IF pending
    THEN IF b = "A9" THEN [out |-> <<"U+00E9">>, pending |-> FALSE]
         ELSE IF b = "C3" THEN [out |-> <<"U+FFFD">>, pending |-> TRUE]
         ELSE [out |-> <<"U+FFFD", b>>, pending |-> FALSE]
    ELSE IF b = "C3" THEN [out |-> <<>>, pending |-> TRUE]
         ELSE IF b = "A9" THEN [out |-> <<"U+FFFD">>, pending |-> FALSE]
         ELSE [out |-> <<b>>, pending |-> FALSE]

\* decoder.decode(chunk, {stream: true}): the decoder keeps an unfinished
\* character for the next call.
RECURSIVE Decode(_, _)
Decode(pending, chunk) ==
    IF chunk = <<>> THEN [out |-> <<>>, pending |-> pending]
    ELSE LET d == DecodeByte(pending, Head(chunk))
             r == Decode(d.pending, Tail(chunk))
         IN  [out |-> d.out \o r.out, pending |-> r.pending]

\* buf.indexOf("\n"), counted from 1; 0 when there is none.
RECURSIVE IndexOfLF(_, _)
IndexOfLF(buf, from) ==
    IF from > Len(buf) THEN 0
    ELSE IF buf[from] = "LF" THEN from
    ELSE IndexOfLF(buf, from + 1)

\* A replace that takes nothing from the line.
StripNothing(line) == line

\* line.replace(/\r$/, "")
StripCR(line) ==
    IF line # <<>> /\ line[Len(line)] = "CR" THEN SubSeq(line, 1, Len(line) - 1)
    ELSE line

\* while ((idx = buf.indexOf("\n")) !== -1) { onLine(...); buf = buf.slice(idx + 1) }
RECURSIVE Drain(_, _)
Drain(buf, lines) ==
    LET idx == IndexOfLF(buf, 1) IN
    IF idx = 0 THEN [buf |-> buf, lines |-> lines]
    ELSE Drain(SubSeq(buf, idx + 1, Len(buf)),
               Append(lines, StripCR(SubSeq(buf, 1, idx - 1))))

\* streamLines(stream, onLine) is called on a stream.
StreamStart(stream) ==
    /\ splitter = NoSplitter
    /\ splitter' = [NoSplitter EXCEPT !.stream = stream, !.rest = stream,
                                      !.phase = "reading"]
    /\ UNCHANGED <<processes, metas, children, dirs, files, calls, server, held, ring, capture, http>>

\* One turn of `for await (const chunk of stream)`: the next k bytes arrive.
StreamChunk(k) ==
    /\ splitter.phase = "reading"
    /\ k <= Len(splitter.rest)
    /\ LET chunk == SubSeq(splitter.rest, 1, k)
           d == Decode(splitter.pending, chunk)
           r == Drain(splitter.buf \o d.out, splitter.lines)
       IN  splitter' = [splitter EXCEPT
                           !.rest = SubSeq(@, k + 1, Len(@)),
                           !.pending = d.pending,
                           !.buf = r.buf,
                           !.lines = r.lines,
                           !.chunks = @ + 1]
    /\ UNCHANGED <<processes, metas, children, dirs, files, calls, server, held, ring, capture, http>>

\* The stream ends: if (buf) onLine(buf)
StreamEnd ==
    /\ splitter.phase = "reading"
    /\ splitter.rest = <<>>
    /\ splitter' = [splitter EXCEPT
                        !.lines = IF splitter.buf # <<>>
                                  THEN Append(@, splitter.buf) ELSE @,
                        !.buf = <<>>,
                        !.phase = "ended"]
    /\ UNCHANGED <<processes, metas, children, dirs, files, calls, server, held, ring, capture, http>>

SplitterNext ==
    \/ \E stream \in Streams : StreamStart(stream)
    \/ \E k \in 1..MaxStream : StreamChunk(k)
    \/ StreamEnd

SplitterSpec == Init /\ [][SplitterNext]_vars

\* ---------------------------------------------------------------- log capture

Channels == {"stdout", "stderr"}
LineNumbers == {1, 2}        \* the lines a process writes, both channels together

\* The buffer the sink of a capture task pushes into, found through the
\* registry by the id of the record, as the exit watcher finds its record.
SinkBufferById(p, id, reg) == reg[id]

\* The buffer the sink of a capture task of process p pushes into: the
\* logBuffer of the create call that spawned p, a constant of the closure. It
\* is the buffer of the record made in that call, which has the number of p.
SinkBuffer(p, id, reg) == p

\* (line) => logBuffer.push(`[stdout] ${line}`), and the same for stderr: the
\* entry is the tag of the sink and the line; a line is known here by the
\* process and the channel that wrote it and its number on that channel.
Tagged(channel, line) == [tag |-> channel, line |-> line]

\* A capture task of process p hands the next line of its channel to its sink.
\* The pipe may still hold lines when the process has ended.
Capture(p, channel) ==
    /\ NoneSettled
    /\ p \in 1..Len(children)
    /\ capture[p].stdout + capture[p].stderr < Cardinality(LineNumbers)
    /\ LET n == capture[p][channel] + 1
           b == SinkBuffer(p, children[p].id, processes)
       IN  capture' = [capture EXCEPT
                          ![p][channel] = n,
                          ![b].buf = Append(@, Tagged(channel, <<p, channel, n>>))]
    /\ UNCHANGED <<processes, metas, children, dirs, files, calls, server, held, ring, splitter, http>>

\* The supervisor with creates, with and without replace, and the capture
\* tasks of the processes.
CaptureNext ==
    \/ \E t \in Callers, id \in CreateIds, configToml \in ConfigTomls,
          config \in Configs, replaceIfExists \in BOOLEAN :
          CreateCall(t, id, configToml, config, replaceIfExists)
    \/ \E t \in Callers : StopWake(t)
    \/ \E t \in Callers, found \in BOOLEAN : CreateBinaryChecked(t, found)
    \/ \E t \in Callers : CreateMkdirDone(t)
    \/ \E t \in Callers, spawned \in BOOLEAN : CreateSpawn(t, spawned)
    \/ \E p \in 1..Len(children), code \in ExitCodes : ChildExit(p, code)
    \/ \E p \in 1..Len(children) : ExitWatcher(p)
    \/ \E t \in Callers : Return(t)
    \/ \E p \in 1..MaxProcs, channel \in Channels : Capture(p, channel)

CaptureSpec == Init /\ [][CaptureNext]_vars

\* ---------------------------------------------------------------- HTTP layer

\* Strings of the Authorization header are sequences of characters.
BearerPrefix == <<"B", "e", "a", "r", "e", "r", " ">>
ApiSecret == <<"s", "k">>        \* API_SECRET, not empty (the server refuses to start)

\* req.headers.get("authorization"): null when the header is absent.
NoHeader == [has |-> FALSE, text |-> <<>>]
Header(text) == [has |-> TRUE, text |-> text]
Headers ==
    { NoHeader,
      Header(<<>>),
      Header(BearerPrefix \o ApiSecret),
      Header(BearerPrefix \o <<" ">> \o ApiSecret \o <<" ">>),
      Header(BearerPrefix),
      Header(BearerPrefix \o <<"s">>),
      Header(BearerPrefix \o ApiSecret \o <<"x">>),
      Header(BearerPrefix \o <<"x", "k">>),
      Header(<<"b", "e", "a", "r", "e", "r", " ">> \o ApiSecret),
      Header(<<"B", "e", "a", "r", "e", "r">> \o ApiSecret),
      Header(<<"B", "a", "s", "i", "c", " ">> \o ApiSecret),
      Header(ApiSecret) }

\* auth.startsWith(prefix)
StartsWith(text, prefix) ==
    Len(text) >= Len(prefix) /\ SubSeq(text, 1, Len(prefix)) = prefix

\* String.prototype.trim, for the space character.
RECURSIVE Trim(_)
Trim(text) ==
    IF text = <<>> THEN text
    ELSE IF Head(text) = " " THEN Trim(Tail(text))
    ELSE IF text[Len(text)] = " " THEN Trim(SubSeq(text, 1, Len(text) - 1))
    ELSE text

\* A check that takes any header that starts with "Bearer ".
requireAuthAnyBearer(auth, apiSecret) ==
    IF ~auth.has \/ auth.text = <<>> \/ ~StartsWith(auth.text, BearerPrefix)
    THEN "401"
    ELSE "pass"

\* requireAuth(req, apiSecret): throws HttpError 401 or 403, or returns.
requireAuth(auth, apiSecret) ==
    IF ~auth.has \/ auth.text = <<>> \/ ~StartsWith(auth.text, BearerPrefix)
    THEN "401"
    ELSE LET token == Trim(Slice(auth.text, Len(BearerPrefix), Len(auth.text))) IN
         IF token # apiSecret THEN "403" ELSE "pass"

\* fetch(req) from its first line to the routes: /healthz is answered at
\* once; for every other path requireAuth runs, and its error is the response.
Fetch(healthz, auth) ==
    /\ NoneSettled
    /\ http = NoRequest
    /\ http' = [healthz |-> healthz, auth |-> auth,
                verdict |-> IF healthz THEN "ok" ELSE requireAuth(auth, ApiSecret)]
    /\ UNCHANGED <<processes, metas, children, dirs, files, calls, server, held, ring,
                   splitter, capture>>

\* The request at hand has passed requireAuth and goes on to its route.
Passed == http.verdict = "pass"

\* The handler is through with the request at hand: it has answered it, or it
\* awaits the supervisor.
Respond ==
    /\ http # NoRequest
    /\ http' = NoRequest
    /\ UNCHANGED <<processes, metas, children, dirs, files, calls, server, held, ring,
                   splitter, capture>>

\* The event loop takes nothing else while the handler runs.
Quiet == http = NoRequest

\* Requests whose handlers await the supervisor at the same time.
Handlers == {"c1"}

\* The server: a request arrives and is answered or passed on to its route,
\* which runs the operation of the supervisor; timers and callbacks run
\* between requests.
HttpNext ==
    \/ \E healthz \in BOOLEAN, auth \in Headers : Fetch(healthz, auth)
    \/ Respond
    \/ Passed /\ List
    \/ Passed /\ \E t \in Handlers, id \in CreateIds, configToml \in ConfigTomls,
                     config \in Configs, replaceIfExists \in BOOLEAN :
                     CreateCall(t, id, configToml, config, replaceIfExists)
    \/ Passed /\ \E id \in Ids : Get(id)
    \/ Passed /\ \E t \in Handlers, id \in Ids, force \in BOOLEAN,
                     timeoutMs \in TimeoutChoices :
                     processes[id] # Absent /\ StopCall(t, id, force, timeoutMs)
    \/ Quiet /\ \E t \in Handlers : StopWake(t)
    \/ Quiet /\ \E t \in Handlers, found \in BOOLEAN : CreateBinaryChecked(t, found)
    \/ Quiet /\ \E t \in Handlers : CreateMkdirDone(t)
    \/ Quiet /\ \E t \in Handlers, spawned \in BOOLEAN : CreateSpawn(t, spawned)
    \/ Quiet /\ \E p \in 1..Len(children), code \in ExitCodes : ChildExit(p, code)
    \/ Quiet /\ \E p \in 1..Len(children) : ExitWatcher(p)
    \/ \E t \in Handlers : Return(t)

HttpSpec == Init /\ [][HttpNext]_vars

\* ---------------------------------------------------------------- properties

Refs == 1..Len(metas)
Registered(id) == processes[id] # Absent
Record(id) == metas[processes[id]]
IsRunning(id) == Registered(id) /\ Record(id).state.status = "running"
IsExited(id) == Registered(id) /\ Record(id).state.status = "exited"
NoSideEffect == UNCHANGED <<processes, metas, children, dirs, files>>

\* C1: a record object that is Exited is never Running again, whatever create,
\* stop or exit watcher runs next.
C1_NeverReverses ==
    [][\A r \in Refs : metas[r].state.status = "exited"
                          => metas'[r].state.status = "exited"]_vars

\* An Exited record that a later create has superseded under its id.
C1_Witness ==
    \E r \in Refs : /\ metas[r].state.status = "exited"
                    /\ processes[metas[r].id] # r

\* C2: once a record is Exited its Exited fields never change again.
C2_ExitedFieldsFinal ==
    [][\A r \in Refs : metas[r].state.status = "exited"
                          => metas'[r].state = metas[r].state]_vars

\* C3: create without replace on an id that is present fails with 409, spawns
\* nothing, signals nothing and leaves the registry and the records as they were.
C3_ConflictNoEffect ==
    [][\A t \in Callers, id \in CreateIds, ct \in ConfigTomls, cf \in Configs :
          ( /\ CreateCall(t, id, ct, cf, FALSE)
            /\ ValidateCreateBody(ct, cf) = "ok"
            /\ Registered(id) )
          => /\ calls'[t].pc = "done"
             /\ calls'[t].result = "conflict409"
             /\ calls'[t].sent = <<>>
             /\ NoSideEffect]_vars

\* A create was refused with 409 while the record under its id is Running.
C3_Witness ==
    \E t \in Callers : /\ calls[t].op = "create"
                       /\ calls[t].result = "conflict409"
                       /\ IsRunning(calls[t].id)

\* A create with replace that found a Running record and has signalled it.
ReplacingRunning(t) ==
    /\ calls[t].op = "create" /\ calls[t].sent # <<>>

\* The first step: SIGTERM for the prior process, then the wait of 1000 ms.
C4_Graceful ==
    \A t \in Callers, id \in CreateIds, ct \in ConfigTomls, cf \in Configs :
        ( /\ CreateCall(t, id, ct, cf, TRUE)
          /\ ValidateCreateBody(ct, cf) = "ok"
          /\ IsRunning(id) )
        => /\ calls'[t].pc = "sleep"
           /\ calls'[t].force /\ calls'[t].timeoutMs = ReplaceTimeoutMs
           /\ Len(calls'[t].sent) = 1 /\ calls'[t].sent[1].sig = "SIGTERM"
           /\ calls'[t].sent[1].pid = Record(id).state.pid
           /\ children[Record(id).state.pid].status = "alive"
                 => "SIGTERM" \in children'[Record(id).state.pid].sigs

\* The spawn: the prior process has ended or SIGKILL has reached it, and the
\* registry holds a new Running record of the new process.
C4_Superseded ==
    \A t \in Callers :
        (ReplacingRunning(t) /\ CreateSpawn(t, TRUE))
        => /\ \/ children[calls[t].sent[1].pid].status # "alive"
              \/ "SIGKILL" \in children[calls[t].sent[1].pid].sigs
           /\ processes'[calls[t].id] = Len(metas) + 1
           /\ metas'[Len(metas) + 1].state.status = "running"
           /\ metas'[Len(metas) + 1].state.pid = Len(children) + 1
           /\ children'[Len(children) + 1].status = "alive"
           /\ calls'[t].result = "created"

\* The working directory of the new record is made by this create.
C4_FreshDir ==
    \A t \in Callers :
        (ReplacingRunning(t) /\ CreateMkdirDone(t)) => calls[t].id \notin dirs

\* C4: create with replace over a Running record force-stops the prior process
\* (SIGTERM, at most 1000 ms, SIGKILL if still running) before it spawns, and
\* ends with a new Running record of the new process under the id, in a fresh
\* working directory.
C4_ReplaceRunning == [][C4_Graceful /\ C4_Superseded /\ C4_FreshDir]_vars

\* C5: stop of an id that is not registered returns false, signals no process
\* and changes nothing.
C5_StopUnknown ==
    [][\A t \in Callers, id \in Ids, force \in BOOLEAN, timeoutMs \in TimeoutChoices :
          (StopCall(t, id, force, timeoutMs) /\ ~Registered(id))
          => /\ calls'[t].pc = "done"
             /\ calls'[t].result = "false"
             /\ calls'[t].sent = <<>>
             /\ NoSideEffect]_vars

\* stop returned false for an unknown id while another id's process is alive.
C5_Witness ==
    \E t \in Callers : /\ calls[t].op = "stop"
                       /\ calls[t].result = "false"
                       /\ ~Registered(calls[t].id)
                       /\ \E p \in 1..Len(children) : children[p].status = "alive"

\* C6: stop of a record that is already Exited returns true at once and sends
\* no signal, whatever force and timeoutMs are.
C6_StopExited ==
    [][\A t \in Callers, id \in Ids, force \in BOOLEAN, timeoutMs \in TimeoutChoices :
          (StopCall(t, id, force, timeoutMs) /\ IsExited(id))
          => /\ calls'[t].pc = "done"
             /\ calls'[t].result = "true"
             /\ calls'[t].sent = <<>>
             /\ NoSideEffect]_vars

\* A forced stop of an Exited record returned true having sent nothing.
C6_Witness ==
    \E t \in Callers : /\ calls[t].op = "stop"
                       /\ calls[t].force
                       /\ calls[t].result = "true"
                       /\ calls[t].sent = <<>>
                       /\ IsExited(calls[t].id)

KillAdded(t) ==
    /\ Len(calls'[t].sent) > Len(calls[t].sent)
    /\ calls'[t].sent[Len(calls'[t].sent)].sig = "SIGKILL"

NoKillDelivered ==
    \A p \in 1..Len(children) :
        "SIGKILL" \in children'[p].sigs => "SIGKILL" \in children[p].sigs

\* The process of the record this stop was called on still lives.
Ignoring(t) == children[calls[t].sent[1].pid].status = "alive"

\* C7: in a stop of a Running record SIGTERM goes first; SIGKILL is sent only
\* with force, after SIGTERM, when the loop has run out of time and the record
\* is still Running; without force no SIGKILL is ever sent, and if the process
\* ignores SIGTERM the stop returns true only after the timeout, the record
\* still Running.
C7_TermThenKill ==
    /\ [][\A t \in Callers, id \in Ids, force \in BOOLEAN, timeoutMs \in TimeoutChoices :
            (StopCall(t, id, force, timeoutMs) /\ IsRunning(id))
            => /\ calls'[t].sent[1] = Sent(Record(id).state.pid, "SIGTERM")
               /\ KillAdded(t) => /\ force
                                  /\ timeoutMs <= 0
                                  /\ Len(calls'[t].sent) = 2
               /\ ~force => NoKillDelivered
               /\ calls'[t].pc = "done"
                     => /\ calls'[t].result = "true"
                        /\ timeoutMs <= 0
                        /\ metas'[processes[id]].state.status = "running"]_vars
    /\ [][\A t \in Callers :
            StopWake(t)
            => /\ KillAdded(t) => /\ calls[t].force
                                  /\ Slept(calls[t].waited) >= calls[t].timeoutMs
                                  /\ metas[calls[t].meta].state.status = "running"
                                  /\ Len(calls[t].sent) = 1
                                  /\ calls[t].sent[1].sig = "SIGTERM"
               /\ ~calls[t].force => ~KillAdded(t) /\ NoKillDelivered
               /\ (calls[t].op = "stop" /\ calls'[t].pc = "done")
                     => calls'[t].result = "true"
               /\ ( /\ calls[t].op = "stop" /\ calls'[t].pc = "done"
                    /\ ~calls[t].force /\ Ignoring(t) )
                     => /\ Slept(calls[t].waited) >= calls[t].timeoutMs
                        /\ metas[calls[t].meta].state.status = "running"]_vars

\* A stop without force returned true after its 100 ms ran out: only SIGTERM
\* was sent, the process got it and lives on, and the record is still Running.
C7_Witness ==
    \E t \in Callers :
        /\ calls[t].op = "stop" /\ calls[t].pc = "done" /\ calls[t].result = "true"
        /\ ~calls[t].force
        /\ calls[t].timeoutMs = 100 /\ calls[t].waited = 100
        /\ Len(calls[t].sent) = 1 /\ calls[t].sent[1].sig = "SIGTERM"
        /\ IsRunning(calls[t].id)
        /\ children[Record(calls[t].id).state.pid].status = "alive"
        /\ "SIGTERM" \in children[Record(calls[t].id).state.pid].sigs

\* A stop with force was called on record r while it was Running, and has
\* sent SIGTERM to its process.
ForcedStopSignalled(r) ==
    \E t \in Callers : /\ calls[t].op = "stop" /\ calls[t].force
                       /\ calls[t].sent # <<>> /\ calls[t].meta = r

\* C8: after stop with force was called on a Running record, that record is
\* eventually Exited, also when its process ignores SIGTERM (given that
\* SIGKILL ends a process and that the exit watcher runs).
C8_ForcedStopEndsExited ==
    \A r \in 1..MaxProcs :
        ForcedStopSignalled(r) ~> (r \in Refs /\ metas[r].state.status = "exited")

\* A forced stop waited out its 100 ms and returned: its SIGKILL has reached the
\* live process that ignored SIGTERM, and the record is still Running because
\* the exit watcher has yet to run.
C8_Witness ==
    \E t \in Callers :
        /\ calls[t].op = "stop" /\ calls[t].pc = "done" /\ calls[t].force
        /\ calls[t].timeoutMs = 100 /\ calls[t].waited = 100
        /\ Len(calls[t].sent) = 2 /\ calls[t].sent[2].sig = "SIGKILL"
        /\ ForcedStopSignalled(processes[calls[t].id])
        /\ IsRunning(calls[t].id)
        /\ children[calls[t].sent[2].pid].status = "alive"
        /\ "SIGKILL" \in children[calls[t].sent[2].pid].sigs

StopSettlesTrue(t) ==
    \/ calls'[t].pc = "sleep"
    \/ calls'[t].pc = "done" /\ calls'[t].result = "true"

\* C9: a stop of a registered id never fails and eventually returns true,
\* whether or not the process exits and whether or not kill throws.
C9_StopReturnsTrue ==
    /\ [][\A t \in Callers, id \in Ids, force \in BOOLEAN, timeoutMs \in TimeoutChoices :
            (StopCall(t, id, force, timeoutMs) /\ Registered(id))
            => StopSettlesTrue(t)]_vars
    /\ [][\A t \in Callers :
            (StopWake(t) /\ calls[t].op = "stop") => StopSettlesTrue(t)]_vars
    /\ \A t \in Callers :
          (calls[t].op = "stop" /\ calls[t].pc = "sleep")
             ~> (calls[t].op = "stop" /\ calls[t].pc = "done"
                                      /\ calls[t].result = "true")

\* A stop returned true although both of its kills threw: the process was
\* gone already, its exit watcher had not run yet.
C9_Witness ==
    \E t \in Callers :
        /\ calls[t].op = "stop" /\ calls[t].pc = "done" /\ calls[t].result = "true"
        /\ Len(calls[t].sent) = 2
        /\ KillThrows(children, calls[t].sent[1].pid)
        /\ KillThrows(children, calls[t].sent[2].pid)

C11_BinaryNotFoundNoEffect ==
    [][\A t \in Callers :
          CreateBinaryChecked(t, FALSE)
          => /\ calls'[t].result = "binary400"
             /\ calls[t].sent = <<>>
             /\ NoSideEffect]_vars

\* A create failed on the binary check while no record exists under its id.
C11_Witness ==
    \E t \in Callers : /\ calls[t].op = "create"
                       /\ calls[t].result = "binary400"
                       /\ ~Registered(calls[t].id)

\* C12: when Bun.spawn fails the create ends with that error after its one
\* attempt, the registry, the records and the processes are as before, and the
\* working directory and the config file it made stay in place.
C12_SpawnFailureKeepsFiles ==
    [][\A t \in Callers :
          CreateSpawn(t, FALSE)
          => /\ calls'[t].pc = "done"
             /\ calls'[t].result = "spawnError"
             /\ UNCHANGED <<processes, metas, children>>
             /\ calls[t].id \in dirs /\ calls[t].id \in dirs'
             /\ calls[t].id \in files']_vars

\* A create failed at the spawn: nothing is registered under its id, and its
\* working directory and config file exist.
C12_Witness ==
    \E t \in Callers : /\ calls[t].op = "create"
                       /\ calls[t].result = "spawnError"
                       /\ ~Registered(calls[t].id)
                       /\ calls[t].id \in dirs /\ calls[t].id \in files

\* The process of record r has ended, its exit watcher has not run yet, and r
\* is the record in the registry under its id.
EndedWhileRegistered(r) ==
    /\ r \in Refs
    /\ processes[metas[r].id] = r
    /\ children[r].status = "exited"

\* C13: when the process of a record that is in the registry ends, by itself or
\* on a signal, with or without an exit code, that record is eventually Exited
\* (given that exit watchers run).
C13_ExitIsRecorded ==
    \A r \in 1..MaxProcs :
        EndedWhileRegistered(r) ~> (r \in Refs /\ metas[r].state.status = "exited")

\* A process ended on a signal, without exit code, and its record, the one in
\* the registry, still says Running.
C13_Witness ==
    \E r \in Refs : /\ EndedWhileRegistered(r)
                    /\ children[r].exitCode = "null"
                    /\ metas[r].state.status = "running"

\* The shape of a record's state: Running{pid, startedAt} or
\* Exited{startedAt, exitedAt, exitCode, signal}.
WellFormed(st) ==
    \/ /\ st.status = "running"
       /\ DOMAIN st = {"status", "pid", "startedAt"}
       /\ st.pid \in 1..Len(children)
    \/ /\ st.status = "exited"
       /\ DOMAIN st = {"status", "startedAt", "exitedAt", "exitCode", "signal"}
       /\ st.exitCode \in ExitCodes

\* Another stop of the same id is in flight next to the one of caller t.
OtherStopOf(t, id) ==
    \E u \in Callers \ {t} : /\ calls[u].op = "stop" /\ calls[u].pc = "sleep"
                             /\ calls[u].id = id

\* C14: stops of one id that overlap, with any options, and the exit watcher:
\* every stop returns true (and does return), no stop writes a record or the
\* registry, a record never goes back from Exited to Running, and every record
\* state is a well-formed Running or Exited.
C14_ConcurrentStops ==
    /\ [][\A t \in Callers, id \in Ids, force \in BOOLEAN, timeoutMs \in TimeoutChoices :
            (StopCall(t, id, force, timeoutMs) /\ OtherStopOf(t, id))
            => StopSettlesTrue(t) /\ UNCHANGED <<processes, metas>>]_vars
    /\ [][\A t \in Callers :
            (StopWake(t) /\ calls[t].op = "stop" /\ OtherStopOf(t, calls[t].id))
            => StopSettlesTrue(t) /\ UNCHANGED <<processes, metas>>]_vars
    /\ [][\A r \in Refs :
            /\ WellFormed(metas'[r].state)
            /\ metas'[r].state.status = "running"
                  => metas[r].state.status = "running"]_vars
    /\ \A t \in Callers :
          (calls[t].op = "stop" /\ calls[t].pc = "sleep"
              /\ OtherStopOf(t, calls[t].id))
             ~> (calls[t].op = "stop" /\ calls[t].pc = "done"
                                      /\ calls[t].result = "true")

\* Two stops of the same Running record overlapped, one with force and one
\* without; one has just returned true while the other still waits.
C14_Witness ==
    \E t \in Callers :
        /\ calls[t].op = "stop" /\ calls[t].pc = "done" /\ calls[t].result = "true"
        /\ calls[t].sent # <<>>
        /\ \E u \in Callers \ {t} :
              /\ calls[u].op = "stop" /\ calls[u].pc = "sleep"
              /\ calls[u].id = calls[t].id /\ calls[u].meta = calls[t].meta
              /\ calls[u].force # calls[t].force

\* The server has exited on a host signal.
ServerExited == server.phase = "exited"

\* Host process p runs on although no signal was ever sent to it.
LeftRunning(p) == children[p].status = "alive" /\ children[p].sigs = {}

\* The handler starts a stop with force for every record in the registry, all
\* in the run that receives the signal.
C15_StartsAll ==
    [][ShutdownSignal
         => \A id \in TrackedIds(processes) :
               /\ calls'[id].op = "stop" /\ calls'[id].force
               /\ calls'[id].timeoutMs = DefaultTimeoutMs
               /\ calls'[id].pc \in {"sleep", "done"}]_vars

\* The server exits only when every one of those stops has returned.
C15_ExitsAfterStops ==
    ServerExited => \A id \in server.ids : calls[id].pc = "joined"

\* When the server has exited, no process it spawned runs on unsignalled.
C15_NoneLeftRunning ==
    ServerExited => \A p \in 1..Len(children) : ~LeftRunning(p)

\* C15: on a host signal the server starts a forced stop of every record it
\* tracks, all at once, exits only after all of them have returned, and then
\* every process it spawned has ended or has been sent a termination signal,
\* however the shutdown interleaves with creates in flight.
C15_ShutdownStopsAll ==
    /\ C15_StartsAll
    /\ [](C15_ExitsAfterStops /\ C15_NoneLeftRunning)

\* The server has exited after stopping a record while a create was in flight.
C15_Witness ==
    /\ ServerExited
    /\ server.ids # {}
    /\ \E p \in 1..Len(children) : children[p].status = "alive"

\* The values a caller holds that came from one of the operations in `vias`.
HeldFrom(vias) == IF held.via \in vias THEN DOMAIN held.vals ELSE {}

\* While the caller does nothing with the values it holds, what it reads
\* from them stays what it was, whatever the supervisor does to its records.
SnapshotKept(vias) ==
    (held' = held /\ ~ \E id \in Ids, field \in Fields : Assign(id, field))
       => \A id \in HeldFrom(vias) :
             Read(held.vals[id], metas') = Read(held.vals[id], metas)

\* The caller's assignment to a field of a held value leaves the records of
\* the supervisor as they were.
AssignStaysOutside(vias) ==
    \A id \in HeldFrom(vias), field \in Fields :
        Assign(id, field) => metas' = metas

\* C16: the record that get(id) or create returns is an independent snapshot:
\* obtained while the record is Running it still reads Running after the exit
\* watcher has marked the record Exited, and an assignment to one of its fields
\* does not change the record in the registry.
C16_GetReturnsSnapshot ==
    /\ [][SnapshotKept({"get", "create"})]_vars
    /\ [][AssignStaysOutside({"get", "create"})]_vars

\* A caller holds what get returned while the record was Running, and the exit
\* watcher has since marked the record Exited.
C16_Witness ==
    /\ held.via = "get"
    /\ \E id \in DOMAIN held.vals :
          /\ held.vals[id].val.state.status = "running"
          /\ metas[held.vals[id].ref].state.status = "exited"

\* C17: every record that list() returns is an independent snapshot: its state
\* field keeps the value it had when list() was called, also after the exit
\* watcher has marked the record Exited, and an assignment to a field of the
\* returned record does not change the record in the registry.
C17_ListReturnsSnapshots ==
    /\ [][SnapshotKept({"list"})]_vars
    /\ [][AssignStaysOutside({"list"})]_vars

\* A caller holds an entry of list() taken while the record was Running and
\* has assigned to its id; the exit watcher has since marked the record
\* Exited, and the record still has its own id.
C17_Witness ==
    /\ held.via = "list"
    /\ \E id \in DOMAIN held.vals :
          /\ held.vals[id].val.id = CallerValue("id")
          /\ held.vals[id].val.state.status = "running"
          /\ metas[held.vals[id].ref].state.status = "exited"
          /\ metas[held.vals[id].ref].id = id

\* An id in the registry stays in it: no exit, stop or create removes it.
C18_IdStays ==
    [][\A id \in Ids : Registered(id) => Registered(id)']_vars

\* With no create that asks for a replace, the record under an id in the
\* registry is the same object for ever.
C18_SameRecord ==
    [][\A id \in Ids : Registered(id) => processes'[id] = processes[id]]_vars

\* create without replace on an id whose record is Exited fails with 409.
C18_ExitedStillConflicts ==
    [][\A t \in Callers, id \in CreateIds, ct \in ConfigTomls, cf \in Configs :
          ( /\ CreateCall(t, id, ct, cf, FALSE)
            /\ ValidateCreateBody(ct, cf) = "ok"
            /\ IsExited(id) )
          => calls'[t].pc = "done" /\ calls'[t].result = "conflict409"]_vars

\* C18: an id once in the registry stays in it, whatever exits or is stopped;
\* the record under it changes identity only by a successful create with
\* replaceIfExists = true (so never, when no caller asks for a replace); and
\* create without replace on an id whose record is Exited fails with Conflict.
C18_RecordPersists ==
    /\ C18_IdStays
    /\ C18_SameRecord
    /\ C18_ExitedStillConflicts

\* A create without replace was refused with 409 although the record under
\* its id is Exited and its process is gone.
C18_Witness ==
    \E t \in Callers : /\ calls[t].op = "create"
                       /\ calls[t].result = "conflict409"
                       /\ IsExited(calls[t].id)
                       /\ children[processes[calls[t].id]].status = "notified"

\* The last k of the n lines pushed so far, in push order.
LastPushed(n, k) == [i \in 1..k |-> n - k + i]

\* C19: for every capacity C and every number n of pushes, toArray() with no
\* limit returns the last min(n, C) pushed lines in push order; with capacity
\* 10 and the pushes 1..25 it returns 16..25.
C19_ToArrayIsTail ==
    [][\A limit \in Limits :
          ToArray(FALSE, limit)
          => /\ ring'.out = LastPushed(ring.pushed,
                                       Min(ring.pushed, ring.rb.capacity))
             /\ Len(ring'.out) <= ring.rb.capacity
             /\ ring.pushed > 0 => ring'.out[Len(ring'.out)] = ring.pushed
             /\ (ring.rb.capacity = 10 /\ ring.pushed = 25)
                   => ring'.out = <<16, 17, 18, 19, 20, 21, 22, 23, 24, 25>>]_vars

\* Capacity 10, 25 lines pushed, and toArray() has returned 16..25.
C19_Witness ==
    /\ ring.rb.capacity = 10 /\ ring.pushed = 25 /\ ~ring.given
    /\ ring.out = <<16, 17, 18, 19, 20, 21, 22, 23, 24, 25>>

\* C20: for every limit L from 1 to the number of retained lines, toArray(L)
\* returns the last L entries of toArray(), in the same order, and leaves the
\* buffer as it was.
C20_LimitIsSuffix ==
    [][\A L \in Limits :
          LET all == toArray(ring.rb, FALSE, 0) IN
          (ToArray(TRUE, L) /\ 1 <= L /\ L <= Len(all))
          => /\ ring'.out = SubSeq(all, Len(all) - L + 1, Len(all))
             /\ Len(ring'.out) = L
             /\ ring'.rb = ring.rb
             /\ toArray(ring'.rb, FALSE, 0) = all]_vars

\* A buffer that has wrapped and stands in mid-array; toArray(L) with L less
\* than the number of retained lines has returned L lines.
C20_Witness ==
    /\ ring.rb.filled /\ ring.rb.index > 0
    /\ ring.given /\ 1 < ring.limit /\ ring.limit < ring.rb.capacity
    /\ Len(ring.out) = ring.limit
    /\ ring.out[Len(ring.out)] = ring.pushed

\* C21: for every limit given to toArray, 0 and limits above the number of
\* retained lines included, the result has at most limit entries, and they are
\* the most recent lines, in order.
C21_AtMostLimit ==
    [][\A L \in Limits :
          LET all == toArray(ring.rb, FALSE, 0) IN
          ToArray(TRUE, L)
          => /\ Len(ring'.out) <= L
             /\ ring'.out = SubSeq(all, Len(all) - Len(ring'.out) + 1, Len(all))]_vars

\* toArray was given a limit above the number of retained lines and has
\* returned all of them.
C21_Witness ==
    /\ ring.given /\ ring.pushed > 0
    /\ ring.limit > Len(toArray(ring.rb, FALSE, 0))
    /\ ring.out = toArray(ring.rb, FALSE, 0)

\* A request clamped into [10, 10000].
Clamped(n) == IF n < 10 THEN 10 ELSE IF n > 10000 THEN 10000 ELSE n

\* The lines a buffer retains.
Retained(rb) == Len(toArray(rb, FALSE, 0))

\* C22: for every requested capacity the capacity of a record's log buffer is
\* the request clamped into [10, 10000], the request being 1000 when none is
\* made; the capacity never changes afterwards, and after any number of pushes
\* the buffer retains at most that many lines.
C22_CapacityClampedAndFixed ==
    /\ [][\A given \in BOOLEAN, logLines \in LogLines :
             CreateLogBuffer(given, logLines)
             => ring'.rb.capacity = Clamped(IF given THEN logLines ELSE 1000)]_vars
    /\ [][ring # NoRing => ring'.rb.capacity = ring.rb.capacity]_vars
    /\ [](ring # NoRing => /\ ring.rb.capacity \in 10..10000
                           /\ Len(ring.rb.buffer) = ring.rb.capacity
                           /\ Retained(ring.rb) = Min(ring.pushed, ring.rb.capacity))

\* A buffer of capacity 10 (asked for less) that has taken more pushes than
\* its capacity and retains 10 lines.
C22_Witness ==
    /\ ring.rb.capacity = 10 /\ ring.pushed > 10 /\ Retained(ring.rb) = 10

\* The text of a stream split at each line feed: the pieces that a line feed
\* ends, each without a carriage return at its end, and what follows the last
\* line feed.
RECURSIVE SplitAtLF(_, _, _)
SplitAtLF(text, piece, pieces) ==
    IF text = <<>> THEN [lines |-> pieces, remainder |-> piece]
    ELSE IF Head(text) = "LF"
    THEN SplitAtLF(Tail(text), <<>>,
                   Append(pieces,
                          IF piece # <<>> /\ piece[Len(piece)] = "CR"
                          THEN SubSeq(piece, 1, Len(piece) - 1) ELSE piece))
    ELSE SplitAtLF(Tail(text), Append(piece, Head(text)), pieces)

\* The lines of a whole stream: its text, uncut, split at each line feed, and
\* the remainder as the last line when it is not empty.
ExpectedLines(stream) ==
    LET s == SplitAtLF(Decode(FALSE, stream).out, <<>>, <<>>) IN
    [terminated |-> s.lines,
     all |-> IF s.remainder # <<>> THEN Append(s.lines, s.remainder) ELSE s.lines]

\* C23: however a byte stream is cut into chunks, the lines the splitter emits
\* are those of the uncut stream: the text split at each line feed, a trailing
\* carriage return taken off each line, each line once and in order, and the
\* unterminated remainder once, as the last line, if and only if it is not
\* empty.
C23_SameLinesForEveryCut ==
    /\ splitter.phase = "ended"
          => splitter.lines = ExpectedLines(splitter.stream).all
    /\ splitter.phase = "reading"
          => LET e == ExpectedLines(splitter.stream).terminated IN
             /\ Len(splitter.lines) <= Len(e)
             /\ splitter.lines = SubSeq(e, 1, Len(splitter.lines))

\* The stream a CR LF a has arrived one byte per chunk, the carriage return
\* and the line feed in different chunks, and has ended: two lines "a".
C23_Witness ==
    /\ splitter.phase = "ended"
    /\ splitter.stream = <<"a", "CR", "LF", "a">>
    /\ splitter.chunks = 4
    /\ splitter.lines = << <<"a">>, <<"a">> >>

\* The numbers of the lines of one channel in a buffer, in buffer order.
RECURSIVE ChannelLines(_, _)
ChannelLines(buf, channel) ==
    IF buf = <<>> THEN <<>>
    ELSE IF Head(buf).tag = channel
    THEN <<Head(buf).line[3]>> \o ChannelLines(Tail(buf), channel)
    ELSE ChannelLines(Tail(buf), channel)

\* C24: every entry of a record's log buffer is a line that the stdout or the
\* stderr capture task of that record's own process handed over, under the tag
\* of that channel; the lines of one channel stand in the buffer in the order
\* the channel wrote them, each once, however the two tasks interleave; and no
\* output of a superseded process is in the buffer of the record that replaced
\* it.
C24_OwnTaggedOrderedLines ==
    \A r \in 1..MaxProcs :
        /\ \A i \in 1..Len(capture[r].buf) :
              LET e == capture[r].buf[i] IN
              /\ e.line[1] = r
              /\ e.tag \in Channels /\ e.tag = e.line[2]
              /\ e.line[3] <= capture[r][e.tag]
        /\ \A channel \in Channels :
              ChannelLines(capture[r].buf, channel)
                 = [n \in 1..capture[r][channel] |-> n]
        /\ capture[r].buf # <<>> => r \in Refs

\* Record 2 has replaced record 1 under its id; the superseded process has
\* written two lines on stdout, and the buffer of record 2 holds lines of both
\* channels of its own process, a stderr line before a stdout line.
C24_Witness ==
    /\ Len(metas) = 2 /\ metas[1].id = metas[2].id /\ processes[metas[2].id] = 2
    /\ capture[1].stdout = 2
    /\ Len(capture[2].buf) >= 2
    /\ capture[2].buf[1].tag = "stderr" /\ capture[2].buf[2].tag = "stdout"

\* The headers that carry the secret as their Bearer token, and those that
\* are Bearer headers at all.
WithSecret == { Header(BearerPrefix \o ApiSecret),
                Header(BearerPrefix \o <<" ">> \o ApiSecret \o <<" ">>) }
BearerHeaders == { h \in Headers : h.has /\ StartsWith(h.text, BearerPrefix) }

\* A step in which the supervisor is asked to list, get, create or stop: a
\* caller's call begins, or a caller is handed records.
SupervisorOperation ==
    \/ \E t \in Handlers : calls[t].op = "idle" /\ calls'[t].op # "idle"
    \/ held' # held

\* C25: no operation of the supervisor runs for a request without a Bearer
\* token equal to API_SECRET: a request for a path other than /healthz with no
\* or a malformed header is refused with 401, one with another token with 403,
\* and neither reads nor writes the registry.
C25_AuthBeforeOperation ==
    /\ [][SupervisorOperation => http.verdict = "pass" /\ http.auth \in WithSecret]_vars
    /\ [][http' # http => UNCHANGED <<processes, metas, children, calls, held>>]_vars
    /\ [](http # NoRequest /\ ~http.healthz
            => http.verdict = IF http.auth \in WithSecret THEN "pass"
                              ELSE IF http.auth \in BearerHeaders THEN "403"
                              ELSE "401")

\* A request for a Running record came with a Bearer token that has the secret
\* as a prefix, and was refused with 403; the record is still Running.
C25_Witness ==
    /\ ~http.healthz /\ http.verdict = "403"
    /\ http.auth = Header(BearerPrefix \o ApiSecret \o <<"x">>)
    /\ IsRunning("a")

\* C26: a record in the registry is Exited only if the process that was
\* spawned for that record has ended, and its startedAt and exitCode are those
\* of that process: the end of another process, such as the one a create with
\* replace superseded under the same id, never marks the current record Exited.
C26_ExitedByOwnProcess ==
    \A id \in Ids :
        IsExited(id)
        => LET r == processes[id] IN
           /\ children[r].status # "alive"
           /\ Record(id).state.startedAt = SpawnTime(r)
           /\ Record(id).state.exitedAt = ExitTime(r)
           /\ Record(id).state.exitCode = children[r].exitCode

\* A record that replaced another under its id is Exited, stamped by its own
\* process, while the superseded process has been notified too.
C26_Witness ==
    /\ Len(children) = 2 /\ processes["a"] = 2
    /\ IsExited("a") /\ Record("a").state.exitedAt = ExitTime(2)
    /\ children[1].status = "notified" /\ children[2].status = "notified"

\* The processes spawned for an id.
SpawnedFor(id) == {p \in 1..Len(children) : children[p].id = id}

\* Process p is alive and no record in the registry has its pid.
Unreferenced(p) ==
    /\ children[p].status = "alive"
    /\ ~ \E id \in Ids : /\ Registered(id)
                         /\ Record(id).state.status = "running"
                         /\ Record(id).state.pid = p

\* C27: of two creates of the same id without replace that overlap (both
\* begun before either has inserted its record) at most one succeeds, at most
\* one process is spawned for the id, and no spawned process runs on without a
\* record in the registry that refers to it.
C27_OneOfOverlappingCreates ==
    /\ \A id \in Ids : Cardinality(SpawnedFor(id)) <= 1
    /\ \A p \in 1..Len(children) : ~Unreferenced(p)

\* Two creates of the same id overlap: both have passed the id check and
\* neither has inserted a record.
C27_Witness ==
    /\ calls["c1"].op = "create" /\ calls["c2"].op = "create"
    /\ calls["c1"].id = calls["c2"].id
    /\ calls["c1"].pc = "writeFile" /\ calls["c2"].pc = "writeFile"
    /\ ~Registered(calls["c1"].id)

\* C28: every signal a stop(id) call sends goes to the process of the record
\* that was under id when the call began: when a create with replace puts
\* another record under id while the stop polls, the stop does not send
\* SIGKILL to the process of the new record.
C28_SignalsOwnProcess ==
    \A t \in Callers :
        (calls[t].op = "stop" /\ calls[t].meta # Absent)
        => \A i \in 1..Len(calls[t].sent) : calls[t].sent[i].pid = calls[t].meta

\* A forced stop of a Running record has returned after its SIGTERM and its
\* SIGKILL, while another record has been put under the id.
C28_Witness ==
    \E t \in Callers :
        /\ calls[t].op = "stop" /\ calls[t].pc = "done" /\ calls[t].meta # Absent
        /\ Len(calls[t].sent) = 2
        /\ processes[calls[t].id] # calls[t].meta

====
